---- MODULE Spec2Model ----
(***************************************************************************)
(* A model of the coffee-shop drinks backend (backend/src/api.py): the     *)
(* five routes over the drinks table, the permission gate in front of four *)
(* of them, and the error handlers.  Requests are handled one at a time in *)
(* Spec; SpecRace splits POST /drinks into its three store-visible steps   *)
(* and lets two workers interleave them.                                   *)
(***************************************************************************)
EXTENDS Integers, Sequences, FiniteSets, TLC

\* Largest id the model lets the table assign (the table itself is unbounded).
MaxId == 2

VARIABLES
    drinks,     \* the drinks table: id -> [title, recipe]
    nextId,     \* the id the table assigns to the next inserted row
    everHeld,   \* history: every id some row has held so far
    req,        \* the request handled by the last step of Spec
    resp,       \* the response to it
    pc,         \* SpecRace: each worker's position inside create_drinks
    wreq,       \* SpecRace: the request each worker is handling
    wresp       \* SpecRace: the response each worker produced

vars == <<drinks, nextId, everHeld, req, resp, pc, wreq, wresp>>

Ids == 1..MaxId
Workers == {"w1", "w2"}

----------------------------------------------------------------------------
(* JSON values as the handlers see them after request.get_json().          *)

\* Python None: what body.get(key) returns for a key the body does not hold.
JNone == [kind |-> "none", s |-> "", items |-> <<>>]
JStr(s) == [kind |-> "str", s |-> s, items |-> <<>>]
JList(xs) == [kind |-> "list", s |-> "", items |-> xs]
\* A body field the handler never got to read.
Unread == [kind |-> "unread", s |-> "", items |-> <<>>]

IngWater == [name |-> "water", color |-> "blue", parts |-> 1]

WaterRecipe == JList(<<IngWater>>)

\* The titles and recipes a request body may carry.
TitleInputs == {JNone, JStr(""), JStr("Water"), JStr("water")}
RecipeInputs == {JNone, JStr(""), WaterRecipe}

\* The values a stored recipe text can parse to.
JsonValues == RecipeInputs \cup {JList(<<>>)}

dumps_ingredient(i) ==
    "{\"name\": \"" \o i.name \o "\", \"color\": \"" \o i.color
        \o "\", \"parts\": " \o ToString(i.parts) \o "}"

RECURSIVE dumps_items(_)
dumps_items(xs) ==
    IF xs = <<>> THEN ""
    ELSE IF Len(xs) = 1 THEN dumps_ingredient(Head(xs))
    ELSE dumps_ingredient(Head(xs)) \o ", " \o dumps_items(Tail(xs))

\* json.dumps: the text of a value.  No value has the empty text.
json_dumps(v) ==
    IF v.kind = "none" THEN "null"
    ELSE IF v.kind = "str" THEN "\"" \o v.s \o "\""
    ELSE "[" \o dumps_items(v.items) \o "]"

\* json.loads on the texts json.dumps produced.
json_loads(text) == CHOOSE v \in JsonValues : json_dumps(v) = text

\* Whether a parsed recipe is a sequence of ingredient entries.
IsIngredientList(v) == v.kind = "list"

----------------------------------------------------------------------------
(* The permission gate.                                                    *)

AllPermissions ==
    {"get:drinks-detail", "post:drinks", "patch:drinks", "delete:drinks"}

NoHeader == [present |-> FALSE, permissions |-> {}]
Bearer(perms) == [present |-> TRUE, permissions |-> perms]

\* No Authorization header, a barista's token, a manager's token.
Headers == {NoHeader, Bearer({"get:drinks-detail"}), Bearer(AllPermissions)}

AuthOk == [ok |-> TRUE, code |-> "", description |-> "", status_code |-> 200]
AuthError(code, description, status_code) ==
    [ok |-> FALSE, code |-> code, description |-> description,
     status_code |-> status_code]

\* requires_auth(permission): the claims, or the AuthError it raises.
requires_auth(permission, header) ==
    IF ~header.present
    THEN AuthError("authorization_header_missing",
                   "Authorization header is expected.", 401)
    ELSE IF permission \notin header.permissions
    THEN AuthError("unauthorized", "Permission not found.", 403)
    ELSE AuthOk

----------------------------------------------------------------------------
(* Responses.                                                              *)

Response(status, success, error, message, list, deleted) ==
    [status |-> status, success |-> success, error |-> error,
     message |-> message, drinks |-> list, deleted |-> deleted]

NoResponse == Response(0, FALSE, 0, "", <<>>, 0)

\* jsonify({'success': True, 'drinks': ...})
OkDrinks(list) == Response(200, TRUE, 0, "", list, 0)

\* jsonify({'success': True, 'deleted': id})
OkDeleted(id) == Response(200, TRUE, 0, "", <<>>, id)

\* An exception no handler is registered for.
ServerFault == Response(500, FALSE, 500, "internal server error", <<>>, 0)

\* The handler answering with the error's own status code.
authorization_errors_own_status(error) ==
    Response(error.status_code, FALSE, error.status_code, error.description,
             <<>>, 0)

\* @app.errorhandler(AuthError): 401 whatever the error's own status is.
authorization_errors(error) ==
    Response(401, FALSE, 401, error.description, <<>>, 0)

unprocessable == Response(422, FALSE, 422, "unprocessable", <<>>, 0)

resource_not_found == Response(404, FALSE, 404, "resource not found", <<>>, 0)

bad_request == Response(400, FALSE, 400, "bad request", <<>>, 0)

----------------------------------------------------------------------------
(* The drinks table and the two views of a row.                            *)

Row(title, recipe) == [title |-> title, recipe |-> recipe]

RECURSIVE SortedIds(_)
SortedIds(S) ==
    IF S = {} THEN <<>>
    ELSE LET m == CHOOSE x \in S : \A y \in S : x <= y
         IN <<m>> \o SortedIds(S \ {m})

\* Drink.query.all(): every row, in id order.
query_all(store) == SortedIds(DOMAIN store)

\* Drink.query.filter(Drink.id == id).one_or_none() found a row.
query_by_id_found(store, id) == id \in DOMAIN store

\* Drink.insert(): the row is added under the id the table assigns.
Drink_insert(store, id, title, recipe) ==
    [i \in DOMAIN store \cup {id} |->
        IF i = id THEN Row(title, recipe) ELSE store[i]]

\* Drink.update(): the changed row is written back.
Drink_update(store, id, row) == [store EXCEPT ![id] = row]

\* Drink.delete(): the row is removed.
Drink_delete(store, id) == [i \in DOMAIN store \ {id} |-> store[i]]

\* Whether the summary view of a row can be built.
short_ok(row) == IsIngredientList(json_loads(row.recipe))

short_items(xs) ==
    [k \in 1..Len(xs) |-> [color |-> xs[k].color, parts |-> xs[k].parts]]

\* Drink.short(): id, title, and colour and parts of each ingredient.
short(store, id) ==
    [id |-> id, title |-> store[id].title,
     recipe |-> short_items(json_loads(store[id].recipe).items)]

\* Drink.long(): id, title, and the parsed recipe.
long(store, id) ==
    [id |-> id, title |-> store[id].title,
     recipe |-> json_loads(store[id].recipe)]

ViewIds(list) == {list[k].id : k \in 1..Len(list)}

----------------------------------------------------------------------------
(* The route handlers, as functions of the table and the request.          *)

\* What a handler leaves behind: the table, the response, whether it inserted.
Outcome(store, response, inserted) ==
    [drinks |-> store, resp |-> response, inserted |-> inserted]

\* The decorated handler did not run: the AuthError handler answers.
Refused(store, error) == Outcome(store, authorization_errors(error), FALSE)

\* get_drinks: the summary view of every row.
get_drinks(store) ==
    IF \E i \in DOMAIN store : ~short_ok(store[i])
    THEN Outcome(store, ServerFault, FALSE)
    ELSE LET ids == query_all(store)
         IN Outcome(store,
                    OkDrinks([k \in 1..Len(ids) |-> short(store, ids[k])]),
                    FALSE)

\* get_drinks_detail: the detailed view of every row.
get_drinks_detail(store) ==
    LET ids == query_all(store)
    IN Outcome(store, OkDrinks([k \in 1..Len(ids) |-> long(store, ids[k])]),
               FALSE)

\* create_drinks, line 81: new_title == '' or new_recipe == ''.
create_invalid(new_title, new_recipe) ==
    new_title = JStr("") \/ new_recipe = ""

\* The uniqueness query filtering on the recipe column.
title_exists_wrong_column(store, new_title) ==
    \E i \in DOMAIN store : store[i].recipe = json_dumps(new_title)

\* create_drinks, line 83: bool(Drink.query.filter_by(title=new_title).first()).
title_exists(store, new_title) ==
    \E i \in DOMAIN store : store[i].title = new_title

\* The response built from Drink.query.first() instead of the new row.
create_response_first(store, id) ==
    OkDrinks(<<long(store, query_all(store)[1])>>)

\* create_drinks, lines 89-92: the detailed view of the new row alone.
create_response(store, id) == OkDrinks(<<long(store, id)>>)

create_drinks(store, id, body_title, body_recipe) ==
    LET new_title == body_title
        new_recipe == json_dumps(body_recipe)
    IN IF create_invalid(new_title, new_recipe)
       THEN Outcome(store, unprocessable, FALSE)
       ELSE IF title_exists(store, new_title)
       THEN Outcome(store, bad_request, FALSE)
       ELSE LET after == Drink_insert(store, id, new_title, new_recipe)
            IN Outcome(after, create_response(after, id), TRUE)

\* The title assigned without the '' test.
patch_fields_always(row, new_title, new_recipe) ==
    Row(new_title, IF new_recipe # "" THEN new_recipe ELSE row.recipe)

\* patch_drinks, lines 121-124: the fields the request replaces.
patch_fields(row, new_title, new_recipe) ==
    Row(IF new_title # JStr("") THEN new_title ELSE row.title,
        IF new_recipe # "" THEN new_recipe ELSE row.recipe)

\* patch_drinks, lines 116-131, for a row that exists.
patch_drinks(store, id, body_title, body_recipe) ==
    LET new_title == body_title
        new_recipe == json_dumps(body_recipe)
        after == Drink_update(store, id,
                              patch_fields(store[id], new_title, new_recipe))
    IN Outcome(after, OkDrinks(<<long(after, id)>>), FALSE)

\* delete_drinks without the 404 test.
delete_drinks_unchecked(store, id) ==
    Outcome(Drink_delete(store, id), OkDeleted(id), FALSE)

\* delete_drinks.
delete_drinks(store, id) ==
    IF ~query_by_id_found(store, id)
    THEN Outcome(store, resource_not_found, FALSE)
    ELSE Outcome(Drink_delete(store, id), OkDeleted(id), FALSE)

----------------------------------------------------------------------------
(* Requests handled one at a time.                                         *)

Request(method, path, id, header, title, recipe) ==
    [method |-> method, path |-> path, id |-> id, header |-> header,
     title |-> title, recipe |-> recipe]

NoRequest == Request("", "", 0, NoHeader, Unread, Unread)

NoWorkerRequest ==
    [header |-> NoHeader, title |-> Unread, recipe |-> "", began |-> {}]

Init ==
    /\ drinks = <<>>
    /\ nextId = 1
    /\ everHeld = {}
    /\ req = NoRequest
    /\ resp = NoResponse
    /\ pc = [w \in Workers |-> "idle"]
    /\ wreq = [w \in Workers |-> NoWorkerRequest]
    /\ wresp = [w \in Workers |-> NoResponse]

\* One request, from its arrival to its response.
Handled(r, out) ==
    /\ out.inserted => nextId <= MaxId
    /\ req' = r
    /\ resp' = out.resp
    /\ drinks' = out.drinks
    /\ nextId' = IF out.inserted THEN nextId + 1 ELSE nextId
    /\ everHeld' = everHeld \cup DOMAIN out.drinks
    /\ UNCHANGED <<pc, wreq, wresp>>

GetDrinks ==
    \E h \in Headers :
        LET r == Request("GET", "/drinks", 0, h, Unread, Unread)
        IN /\ Handled(r, get_drinks(drinks))

GetDrinksDetail ==
    \E h \in Headers :
        LET r == Request("GET", "/drinks-detail", 0, h, Unread, Unread)
            a == requires_auth("get:drinks-detail", h)
        IN IF ~a.ok THEN Handled(r, Refused(drinks, a))
           ELSE Handled(r, get_drinks_detail(drinks))

CreateDrinks ==
    \E h \in Headers :
        LET a == requires_auth("post:drinks", h)
        IN IF ~a.ok
           THEN Handled(Request("POST", "/drinks", 0, h, Unread, Unread),
                        Refused(drinks, a))
           ELSE \E t \in TitleInputs, r \in RecipeInputs :
                    Handled(Request("POST", "/drinks", 0, h, t, r),
                            create_drinks(drinks, nextId, t, r))

PatchDrinks ==
    \E h \in Headers, id \in Ids :
        LET a == requires_auth("patch:drinks", h)
            unread == Request("PATCH", "/drinks/id", id, h, Unread, Unread)
        IN IF ~a.ok THEN Handled(unread, Refused(drinks, a))
           ELSE IF ~query_by_id_found(drinks, id)
           THEN Handled(unread, Outcome(drinks, resource_not_found, FALSE))
           ELSE \E t \in TitleInputs, r \in RecipeInputs :
                    Handled(Request("PATCH", "/drinks/id", id, h, t, r),
                            patch_drinks(drinks, id, t, r))

DeleteDrinks ==
    \E h \in Headers, id \in Ids :
        LET r == Request("DELETE", "/drinks/id", id, h, Unread, Unread)
            a == requires_auth("delete:drinks", h)
        IN IF ~a.ok THEN Handled(r, Refused(drinks, a))
           ELSE Handled(r, delete_drinks(drinks, id))

Next ==
    \/ GetDrinks
    \/ GetDrinksDetail
    \/ CreateDrinks
    \/ PatchDrinks
    \/ DeleteDrinks

Spec == Init /\ [][Next]_vars

----------------------------------------------------------------------------
(* POST /drinks handled by two workers at once: each create_drinks call is *)
(* three steps, split where it reads or writes the table.                  *)

WorkerRequest(header, title, recipe, began) ==
    [header |-> header, title |-> title, recipe |-> recipe, began |-> began]

Answer(w, response) ==
    /\ wresp' = [wresp EXCEPT ![w] = response]
    /\ pc' = [pc EXCEPT ![w] = "done"]

\* Lines 73-82: the gate, the body, the validation.  `began` records the
\* rows committed when the request arrived.
CreateBegin(w) ==
    /\ pc[w] = "idle"
    /\ \E h \in Headers :
        LET a == requires_auth("post:drinks", h)
        IN IF ~a.ok
           THEN /\ wreq' = [wreq EXCEPT ![w] =
                        WorkerRequest(h, Unread, "", DOMAIN drinks)]
                /\ Answer(w, authorization_errors(a))
           ELSE \E t \in TitleInputs, r \in RecipeInputs :
                /\ wreq' = [wreq EXCEPT ![w] =
                        WorkerRequest(h, t, json_dumps(r), DOMAIN drinks)]
                /\ IF create_invalid(t, json_dumps(r))
                   THEN Answer(w, unprocessable)
                   ELSE /\ pc' = [pc EXCEPT ![w] = "check"]
                        /\ UNCHANGED wresp
    /\ UNCHANGED <<drinks, nextId, everHeld, req, resp>>

\* Lines 83-84: the uniqueness query.
CreateCheck(w) ==
    /\ pc[w] = "check"
    /\ IF title_exists(drinks, wreq[w].title)
       THEN Answer(w, bad_request)
       ELSE /\ pc' = [pc EXCEPT ![w] = "insert"]
            /\ UNCHANGED wresp
    /\ UNCHANGED <<drinks, nextId, everHeld, req, resp, wreq>>

\* Lines 86-92: the insert and the response.
CreateInsert(w) ==
    /\ pc[w] = "insert"
    /\ nextId <= MaxId
    /\ drinks' = Drink_insert(drinks, nextId, wreq[w].title, wreq[w].recipe)
    /\ nextId' = nextId + 1
    /\ everHeld' = everHeld \cup {nextId}
    /\ Answer(w, create_response(drinks', nextId))
    /\ UNCHANGED <<req, resp, wreq>>

\* The response is sent; the worker takes the next request.
CreateReturn(w) ==
    /\ pc[w] = "done"
    /\ pc' = [pc EXCEPT ![w] = "idle"]
    /\ wreq' = [wreq EXCEPT ![w] = NoWorkerRequest]
    /\ wresp' = [wresp EXCEPT ![w] = NoResponse]
    /\ UNCHANGED <<drinks, nextId, everHeld, req, resp>>

NextRace ==
    \E w \in Workers :
        \/ CreateBegin(w)
        \/ CreateCheck(w)
        \/ CreateInsert(w)
        \/ CreateReturn(w)

SpecRace == Init /\ [][NextRace]_vars

----------------------------------------------------------------------------
(* Properties.  In Spec every step handles one request: req' is the        *)
(* request, drinks the table it found, drinks' the table it left.          *)

IsList(r) == r.method = "GET" /\ r.path = "/drinks"
IsDetail(r) == r.method = "GET" /\ r.path = "/drinks-detail"
IsCreate(r) == r.method = "POST"
IsPatch(r) == r.method = "PATCH"
IsDelete(r) == r.method = "DELETE"

Gated(r) == IsDetail(r) \/ IsCreate(r) \/ IsPatch(r) \/ IsDelete(r)

PermissionOf(r) ==
    IF IsDetail(r) THEN "get:drinks-detail"
    ELSE IF IsCreate(r) THEN "post:drinks"
    ELSE IF IsPatch(r) THEN "patch:drinks"
    ELSE "delete:drinks"

Authorized(r) == requires_auth(PermissionOf(r), r.header).ok

Titles(store) == {store[i].title : i \in DOMAIN store}

\* C1: an authorized POST /drinks whose title is exactly the title of a row
\* in the table answers 400 and leaves the table as it was.
C1_DuplicateTitleRejected ==
    [][(/\ IsCreate(req')
        /\ Authorized(req')
        /\ req'.title.kind = "str"
        /\ req'.title \in Titles(drinks))
       => (/\ resp'.status = 400
           /\ resp'.success = FALSE
           /\ drinks' = drinks
           /\ nextId' = nextId)]_vars

\* C1 witness: "Water" was refused as a duplicate while a row titled "water"
\* sits next to the row titled "Water".
C1_Witness ==
    /\ IsCreate(req)
    /\ req.title = JStr("Water")
    /\ resp.status = 400
    /\ {JStr("Water"), JStr("water")} \subseteq Titles(drinks)

\* C2: an authorized PATCH of an existing row keeps its title when the body's
\* title is '', sets it to the body's title when that is a non-empty string,
\* keeps the row under its id and changes no other row.
C2_TitleUpdate ==
    [][(/\ IsPatch(req')
        /\ Authorized(req')
        /\ req'.id \in DOMAIN drinks
        /\ req'.title.kind = "str")
       => (/\ resp'.status = 200
           /\ DOMAIN drinks' = DOMAIN drinks
           /\ drinks'[req'.id].title =
                 IF req'.title.s = "" THEN drinks[req'.id].title
                 ELSE req'.title
           /\ Len(resp'.drinks) = 1
           /\ resp'.drinks[1].id = req'.id
           /\ resp'.drinks[1].title = drinks'[req'.id].title
           /\ \A j \in DOMAIN drinks \ {req'.id} : drinks'[j] = drinks[j])]_vars

\* C2 witness: a PATCH with title '' answered 200 and the row still carries
\* its title, with a second row in the table.
C2_Witness ==
    /\ IsPatch(req)
    /\ req.title = JStr("")
    /\ resp.status = 200
    /\ req.id \in DOMAIN drinks
    /\ drinks[req.id].title = JStr("Water")
    /\ Cardinality(DOMAIN drinks) = 2

\* C3: an authorized DELETE of an id no row holds answers 404 and changes
\* nothing; of an id a row holds it answers that id and removes that row
\* alone; GET /drinks lists exactly the rows of the table; and an id enters
\* the table only as the id a successful POST returns.
C3_DeleteContract ==
    [][/\ (IsDelete(req') /\ Authorized(req') /\ req'.id \notin DOMAIN drinks)
            => (resp'.status = 404 /\ drinks' = drinks)
       /\ (IsDelete(req') /\ Authorized(req') /\ req'.id \in DOMAIN drinks)
            => (/\ resp'.status = 200
                /\ resp'.deleted = req'.id
                /\ DOMAIN drinks' = DOMAIN drinks \ {req'.id}
                /\ \A j \in DOMAIN drinks' : drinks'[j] = drinks[j])
       /\ (IsList(req') /\ resp'.status = 200)
            => (ViewIds(resp'.drinks) = DOMAIN drinks /\ drinks' = drinks)
       /\ \A id \in Ids :
            (id \notin DOMAIN drinks /\ id \in DOMAIN drinks')
                => (/\ IsCreate(req')
                    /\ resp'.status = 200
                    /\ resp'.drinks[1].id = id)]_vars

\* C3 witness: GET /drinks answered after a delete; the list holds the row
\* that is left and not the deleted id.
C3_Witness ==
    /\ IsList(req)
    /\ resp.status = 200
    /\ Len(resp.drinks) = 1
    /\ \E id \in everHeld : id \notin DOMAIN drinks /\ id \notin ViewIds(resp.drinks)

C5_AuthFirst ==
    [][/\ (Gated(req') /\ ~Authorized(req'))
            => (/\ resp'.status = 401
                /\ resp'.success = FALSE
                /\ resp'.error = 401
                /\ req'.title = Unread
                /\ drinks' = drinks
                /\ nextId' = nextId)
       /\ IsList(req')
            => (/\ resp'.status # 401
                /\ drinks' = drinks
                /\ resp'.status = 200 => ViewIds(resp'.drinks) = DOMAIN drinks)]_vars

\* C5 witness: a PATCH of an id no row holds, sent without a header, got 401
\* (not 404) while the table holds a row.
C5_Witness ==
    /\ IsPatch(req)
    /\ ~req.header.present
    /\ req.id \notin DOMAIN drinks
    /\ resp.status = 401
    /\ DOMAIN drinks # {}

\* C6: an authorized POST whose title or recipe is '' or absent answers 422
\* and stores nothing.
C6_EmptyFieldRejected ==
    [][(/\ IsCreate(req')
        /\ Authorized(req')
        /\ (req'.title \in {JNone, JStr("")}
                \/ req'.recipe \in {JNone, JStr("")}))
       => (resp'.status = 422 /\ drinks' = drinks)]_vars

\* C7: an authorized PATCH of an existing row whose body omits title keeps
\* the stored title, and one whose body omits recipe or gives '' for it keeps
\* the stored recipe.
C7_OmittedFieldKept ==
    [][(IsPatch(req') /\ Authorized(req') /\ req'.id \in DOMAIN drinks)
       => (/\ req'.title = JNone
                => drinks'[req'.id].title = drinks[req'.id].title
           /\ req'.recipe \in {JNone, JStr("")}
                => drinks'[req'.id].recipe = drinks[req'.id].recipe)]_vars

\* C8: with requests handled one at a time, no two rows have the same title
\* and every stored title is a non-empty string.
C8_TitlesUniqueNonEmpty ==
    /\ \A i, j \in DOMAIN drinks : i # j => drinks[i].title # drinks[j].title
    /\ \A i \in DOMAIN drinks :
            drinks[i].title.kind = "str" /\ drinks[i].title.s # ""

\* A worker's request found its title in the table when it arrived.
TitleHeldOnArrival(w) ==
    \E i \in wreq[w].began \cap DOMAIN drinks : drinks[i].title = wreq[w].title

\* C9: a POST that arrives after another POST with the same title was
\* answered (its row was committed before the request began) answers 400.
C9_SequentialDuplicate ==
    \A w \in Workers :
        (/\ pc[w] = "done"
         /\ requires_auth("post:drinks", wreq[w].header).ok
         /\ wreq[w].title.kind = "str"
         /\ TitleHeldOnArrival(w))
        => wresp[w].status = 400

\* C9 witness: both workers' POSTs with the same title answered 200 and two
\* rows with distinct ids share the title.
C9_Witness ==
    /\ \A w \in Workers : pc[w] = "done" /\ wresp[w].status = 200
    /\ wreq["w1"].title = wreq["w2"].title
    /\ wresp["w1"].drinks[1].id # wresp["w2"].drinks[1].id
    /\ \A w \in Workers :
            drinks[wresp[w].drinks[1].id].title = wreq["w1"].title

\* C10: every stored recipe is the text of an ingredient list, and both list
\* routes answer 200 to an authorized request.
C10_RecipesAreIngredientLists ==
    /\ \A i \in DOMAIN drinks : IsIngredientList(json_loads(drinks[i].recipe))
    /\ (IsList(req) \/ (IsDetail(req) /\ Authorized(req)))
            => (resp.status = 200 /\ ViewIds(resp.drinks) = DOMAIN drinks)

====
